---- MODULE Spec2Model ----
(***************************************************************************)
(* A model of the tmail Fastmail masked-email client (src/lib.rs) and of   *)
(* the command handlers that drive it (src/main.rs).                       *)
(*                                                                         *)
(* Two specifications share the state:                                     *)
(*   WireSpec  every operation is applied to an arbitrary network exchange *)
(*             (transport failure, any status, any body), to see how the   *)
(*             client classifies what comes back;                          *)
(*   Spec      the operations run against a remote JMAP endpoint that      *)
(*             keeps the masked-email records, to check the lifecycle.     *)
(***************************************************************************)
EXTENDS Integers, Sequences, FiniteSets, TLC

VARIABLES endpoint, remote, config, last, destroyed

vars == <<endpoint, remote, config, last, destroyed>>

(***************************************************************************)
(* Bounds of the model.                                                    *)
(***************************************************************************)
\* longest methodResponses array the endpoint answers with
MaxEntries == 2
\* longest "list" array of a MaskedEmail/get result in WireSpec
MaxListed == 2
\* masked-email records the remote endpoint can hold
NumIds == 2

(***************************************************************************)
(* lib.rs constants.                                                       *)
(***************************************************************************)
FASTMAIL_SESSION_URL == "https://api.fastmail.com/jmap/session"
FASTMAIL_API_URL == "https://api.fastmail.com/jmap/api/"
JMAP_CORE_CAPABILITY == "urn:ietf:params:jmap:core"
MASKED_EMAIL_CAPABILITY == "https://www.fastmail.com/dev/maskedemail"

(***************************************************************************)
(* Option<T> and Result<T, FastmailError>.                                 *)
(***************************************************************************)
None == [some |-> FALSE]
Some(x) == [some |-> TRUE, v |-> x]

\* Option<&str>::unwrap_or_default
unwrap_or_default(o) == IF o.some THEN o.v ELSE ""

Ok(v) == [kind |-> "Ok", value |-> v]

\* enum FastmailError
Http(e) == [kind |-> "Http", detail |-> e]
Auth(status, body) == [kind |-> "Auth", status |-> status, body |-> body]
Api(e) == [kind |-> "Api", detail |-> e]
Parse(e) == [kind |-> "Parse", detail |-> e]
MissingCapability == [kind |-> "MissingCapability"]
NotFound(e) == [kind |-> "NotFound", detail |-> e]

\* impl Display for FastmailError: the format string and its arguments
Display(e) ==
    CASE e.kind = "Http" -> [fmt |-> "HTTP error: {}", args |-> <<e.detail>>]
      [] e.kind = "Auth" -> [fmt |-> "Auth failed ({}): {}", args |-> <<e.status, e.body>>]
      [] e.kind = "Api" -> [fmt |-> "API error: {}", args |-> <<e.detail>>]
      [] e.kind = "Parse" -> [fmt |-> "Parse error: {}", args |-> <<e.detail>>]
      [] e.kind = "MissingCapability" -> [fmt |-> "Masked email capability not found", args |-> <<>>]
      [] e.kind = "NotFound" -> [fmt |-> "Not found: {}", args |-> <<e.detail>>]

(***************************************************************************)
(* serde_json::Value, as far as the client looks into it.                  *)
(***************************************************************************)
Null == [t |-> "null"]
Str(s) == [t |-> "str", s |-> s]
Arr(a) == [t |-> "arr", a |-> a]
Obj(m) == [t |-> "obj", m |-> m]
EmptyObj == Obj(<<>>)

IsStr(v) == v.t = "str"

\* Value::get(&str): Some only on an object that holds the key (a null stored
\* under the key is Some(Null))
Get(v, key) ==
    IF v.t = "obj" /\ key \in DOMAIN v.m THEN Some(v.m[key]) ELSE None

\* format!("{:?}", x)
Debug(x) == [fmt |-> "{:?}", arg |-> x]

\* format!("Unexpected response: {:?}", jmap)
Unexpected(jmap) == [fmt |-> "Unexpected response: {:?}", arg |-> jmap]

(***************************************************************************)
(* One network exchange, as reqwest hands it to the client: send() fails,  *)
(* or it yields a response with a status and a body.  A body is a text     *)
(* that is no JSON document, or a JSON document; reading it can fail       *)
(* (readable = FALSE), which text() and json() report as an error.         *)
(***************************************************************************)
Text(s) == [json |-> FALSE, text |-> s]
Json(v) == [json |-> TRUE, value |-> v]
\* a body with bytes that are no text in the response's charset
Bytes(b) == [json |-> FALSE, bytes |-> b]

SendError(e) == [kind |-> "error", detail |-> e]
Response(status, body, readable) ==
    [kind |-> "response", status |-> status, body |-> body, readable |-> readable]

\* a status check that lets redirections through
is_success_below_400(status) == status >= 200 /\ status <= 399

\* StatusCode::is_success
is_success(status) == status >= 200 /\ status <= 299

\* Response::text on a body that was read: the charset decoding puts U+FFFD
\* in the place of what it cannot decode
Decoded(body) ==
    IF "bytes" \in DOMAIN body THEN Text("U+FFFD") ELSE body

\* response.text().unwrap_or_default()
text_unwrap_or_default(response) ==
    IF response.readable THEN Decoded(response.body) ELSE Text("")

\* the requests the client builds
GetRequest(url, token) == [verb |-> "GET", url |-> url, bearer |-> token]
PostRequest(url, token, json) ==
    [verb |-> "POST", url |-> url, bearer |-> token, json |-> json]

\* struct JmapRequest with its single method call
JmapRequest(method, arguments, call_id) ==
    [using |-> <<JMAP_CORE_CAPABILITY, MASKED_EMAIL_CAPABILITY>>,
     methodCalls |-> << <<method, arguments, call_id>> >>]

(***************************************************************************)
(* serde decoding of the three response schemas.                           *)
(***************************************************************************)
\* one element of Vec<(String, serde_json::Value, String)>
IsTriple(v) ==
    /\ v.t = "arr"
    /\ Len(v.a) = 3
    /\ IsStr(v.a[1])
    /\ IsStr(v.a[3])

\* response.json::<JmapResponse>()
json_JmapResponse(response) ==
    IF ~response.readable THEN Parse("error decoding response body")
    ELSE IF ~response.body.json THEN Parse("expected value")
    ELSE LET v == response.body.value
             mr == Get(v, "methodResponses") IN
         IF v.t # "obj" THEN Parse("invalid type")
         ELSE IF ~mr.some THEN Parse("missing field methodResponses")
         ELSE IF mr.v.t # "arr" THEN Parse("invalid type")
         ELSE IF \E i \in 1..Len(mr.v.a) : ~IsTriple(mr.v.a[i]) THEN Parse("invalid type")
         ELSE Ok([method_responses |->
                    [i \in 1..Len(mr.v.a) |->
                        <<mr.v.a[i].a[1].s, mr.v.a[i].a[2], mr.v.a[i].a[3].s>>]])

\* response.json::<SessionResponse>()
json_SessionResponse(response) ==
    IF ~response.readable THEN Parse("error decoding response body")
    ELSE IF ~response.body.json THEN Parse("expected value")
    ELSE LET v == response.body.value
             pa == Get(v, "primaryAccounts") IN
         IF v.t # "obj" THEN Parse("invalid type")
         ELSE IF ~pa.some THEN Parse("missing field primaryAccounts")
         ELSE IF pa.v.t # "obj" THEN Parse("invalid type")
         ELSE IF \E k \in DOMAIN pa.v.m : ~IsStr(pa.v.m[k]) THEN Parse("invalid type")
         ELSE Ok([primary_accounts |-> [k \in DOMAIN pa.v.m |-> pa.v.m[k].s]])

\* an Option<String> field: absent or null is None, a string is Some
OptionalOk(v, key) ==
    LET f == Get(v, key) IN ~f.some \/ f.v.t = "null" \/ IsStr(f.v)

OptionalString(v, key) ==
    LET f == Get(v, key) IN IF f.some /\ IsStr(f.v) THEN Some(f.v.s) ELSE None

OptionalKeys == {"id", "state", "forDomain", "description", "createdAt", "lastMessageAt"}

\* serde_json::from_value::<MaskedEmail>(v): email is the one required field
from_value_MaskedEmail(v) ==
    LET email == Get(v, "email") IN
    IF v.t # "obj" THEN Parse("invalid type")
    ELSE IF ~email.some THEN Parse("missing field email")
    ELSE IF ~IsStr(email.v) THEN Parse("invalid type")
    ELSE IF \E k \in OptionalKeys : ~OptionalOk(v, k) THEN Parse("invalid type")
    ELSE Ok([id |-> OptionalString(v, "id"),
             email |-> email.v.s,
             state |-> OptionalString(v, "state"),
             for_domain |-> OptionalString(v, "forDomain"),
             description |-> OptionalString(v, "description"),
             created_at |-> OptionalString(v, "createdAt"),
             last_message_at |-> OptionalString(v, "lastMessageAt")])

\* serde_json::from_value::<Vec<MaskedEmail>>(v)
from_value_VecMaskedEmail(v) ==
    IF v.t # "arr" THEN Parse("invalid type")
    ELSE IF \E i \in 1..Len(v.a) : from_value_MaskedEmail(v.a[i]).kind # "Ok"
         THEN Parse("invalid element")
    ELSE Ok([i \in 1..Len(v.a) |-> from_value_MaskedEmail(v.a[i]).value])

(***************************************************************************)
(* FastmailClient.  Every operation is a function of its arguments and of  *)
(* the exchange the network gives it; it yields the requests it sent and   *)
(* the value it returns.                                                   *)
(***************************************************************************)
Outcome(sent, result) == [sent |-> sent, result |-> result]

\* a session fetch that sends the request again when the first attempt fails
get_session_retry(token, net) ==
    LET request == GetRequest(FASTMAIL_SESSION_URL, token) IN
    Outcome(IF net.kind = "error" \/ ~is_success(net.status)
            THEN <<request, request>> ELSE <<request>>,
        IF net.kind = "error" THEN Http(net.detail)
        ELSE IF ~is_success(net.status)
             THEN Auth(net.status, text_unwrap_or_default(net))
        ELSE json_SessionResponse(net))

\* FastmailClient::get_session
get_session(token, net) ==
    LET request == GetRequest(FASTMAIL_SESSION_URL, token) IN
    Outcome(<<request>>,
        IF net.kind = "error" THEN Http(net.detail)
        ELSE IF ~is_success(net.status)
             THEN Auth(net.status, text_unwrap_or_default(net))
        ELSE json_SessionResponse(net))

\* an account lookup under the core capability URI
get_account_id_core_capability(token, net) ==
    LET session == get_session(token, net) IN
    Outcome(session.sent,
        IF session.result.kind # "Ok" THEN session.result
        ELSE IF JMAP_CORE_CAPABILITY \in DOMAIN session.result.value.primary_accounts
             THEN Ok(session.result.value.primary_accounts[JMAP_CORE_CAPABILITY])
        ELSE MissingCapability)

\* FastmailClient::get_account_id
get_account_id(token, net) ==
    LET session == get_session(token, net) IN
    Outcome(session.sent,
        IF session.result.kind # "Ok" THEN session.result
        ELSE IF MASKED_EMAIL_CAPABILITY \in DOMAIN session.result.value.primary_accounts
             THEN Ok(session.result.value.primary_accounts[MASKED_EMAIL_CAPABILITY])
        ELSE MissingCapability)

\* the part every masked-email operation repeats: send, status check, decode
\* the batch.  Ok(JmapResponse) or the error the operation returns.
Exchange(net) ==
    IF net.kind = "error" THEN Http(net.detail)
    ELSE IF ~is_success(net.status)
         THEN Auth(net.status, text_unwrap_or_default(net))
    ELSE json_JmapResponse(net)

\* jmap.method_responses.first() when its method name is the expected one
FirstResult(jmap, method) ==
    IF Len(jmap.method_responses) >= 1 /\ jmap.method_responses[1][1] = method
    THEN Some(jmap.method_responses[1][2])
    ELSE None

\* a creation that gives up on a "created" section without "new" before it
\* looks for "notCreated"
create_masked_email_no_fallthrough(token, account_id, description, for_domain, net) ==
    LET request ==
            PostRequest(FASTMAIL_API_URL, token,
                JmapRequest("MaskedEmail/set",
                    [accountId |-> account_id,
                     create |-> [new |-> [state |-> "enabled",
                                          description |-> unwrap_or_default(description),
                                          forDomain |-> unwrap_or_default(for_domain)]]],
                    "0"))
        jmap == Exchange(net)
        first == FirstResult(jmap.value, "MaskedEmail/set")
        created == Get(first.v, "created")
        not_created == Get(first.v, "notCreated")
    IN  Outcome(<<request>>,
            IF jmap.kind # "Ok" THEN jmap
            ELSE IF first.some /\ created.some
                 THEN (IF Get(created.v, "new").some
                       THEN from_value_MaskedEmail(Get(created.v, "new").v)
                       ELSE Api(Unexpected(jmap.value)))
            ELSE IF first.some /\ not_created.some
                 THEN Api(Debug(not_created.v))
            ELSE Api(Unexpected(jmap.value)))

\* a creation that looks for "notCreated" before it looks for "created"
create_masked_email_failure_first(token, account_id, description, for_domain, net) ==
    LET request ==
            PostRequest(FASTMAIL_API_URL, token,
                JmapRequest("MaskedEmail/set",
                    [accountId |-> account_id,
                     create |-> [new |-> [state |-> "enabled",
                                          description |-> unwrap_or_default(description),
                                          forDomain |-> unwrap_or_default(for_domain)]]],
                    "0"))
        jmap == Exchange(net)
        first == FirstResult(jmap.value, "MaskedEmail/set")
        created == Get(first.v, "created")
        not_created == Get(first.v, "notCreated")
    IN  Outcome(<<request>>,
            IF jmap.kind # "Ok" THEN jmap
            ELSE IF first.some /\ not_created.some
                 THEN Api(Debug(not_created.v))
            ELSE IF first.some /\ created.some /\ Get(created.v, "new").some
                 THEN from_value_MaskedEmail(Get(created.v, "new").v)
            ELSE Api(Unexpected(jmap.value)))

\* FastmailClient::create_masked_email
create_masked_email(token, account_id, description, for_domain, net) ==
    LET request ==
            PostRequest(FASTMAIL_API_URL, token,
                JmapRequest("MaskedEmail/set",
                    [accountId |-> account_id,
                     create |-> [new |-> [state |-> "enabled",
                                          description |-> unwrap_or_default(description),
                                          forDomain |-> unwrap_or_default(for_domain)]]],
                    "0"))
        jmap == Exchange(net)
        first == FirstResult(jmap.value, "MaskedEmail/set")
        created == Get(first.v, "created")
        not_created == Get(first.v, "notCreated")
    IN  Outcome(<<request>>,
            IF jmap.kind # "Ok" THEN jmap
            ELSE IF first.some /\ created.some /\ Get(created.v, "new").some
                 THEN from_value_MaskedEmail(Get(created.v, "new").v)
            ELSE IF first.some /\ not_created.some
                 THEN Api(Debug(not_created.v))
            ELSE Api(Unexpected(jmap.value)))

\* FastmailClient::list_masked_emails
list_masked_emails(token, account_id, net) ==
    LET request ==
            PostRequest(FASTMAIL_API_URL, token,
                JmapRequest("MaskedEmail/get",
                    [accountId |-> account_id, ids |-> Null],
                    "0"))
        jmap == Exchange(net)
        first == FirstResult(jmap.value, "MaskedEmail/get")
        list == Get(first.v, "list")
    IN  Outcome(<<request>>,
            IF jmap.kind # "Ok" THEN jmap
            ELSE IF first.some /\ list.some
                 THEN from_value_VecMaskedEmail(list.v)
            ELSE Api(Unexpected(jmap.value)))

\* an archive that asks for the state of destroy
delete_masked_email_deleted(token, account_id, id, net) ==
    LET request ==
            PostRequest(FASTMAIL_API_URL, token,
                JmapRequest("MaskedEmail/set",
                    [accountId |-> account_id,
                     update |-> (id :> [state |-> "deleted"])],
                    "0"))
        jmap == Exchange(net)
        first == FirstResult(jmap.value, "MaskedEmail/set")
        updated == Get(first.v, "updated")
        not_updated == Get(first.v, "notUpdated")
    IN  Outcome(<<request>>,
            IF jmap.kind # "Ok" THEN jmap
            ELSE IF first.some /\ updated.some /\ Get(updated.v, id).some
                 THEN Ok(<<>>)
            ELSE IF first.some /\ not_updated.some
                 THEN Api(Debug(not_updated.v))
            ELSE Api(Unexpected(jmap.value)))

\* FastmailClient::delete_masked_email (archive)
delete_masked_email(token, account_id, id, net) ==
    LET request ==
            PostRequest(FASTMAIL_API_URL, token,
                JmapRequest("MaskedEmail/set",
                    [accountId |-> account_id,
                     update |-> (id :> [state |-> "disabled"])],
                    "0"))
        jmap == Exchange(net)
        first == FirstResult(jmap.value, "MaskedEmail/set")
        updated == Get(first.v, "updated")
        not_updated == Get(first.v, "notUpdated")
    IN  Outcome(<<request>>,
            IF jmap.kind # "Ok" THEN jmap
            ELSE IF first.some /\ updated.some /\ Get(updated.v, id).some
                 THEN Ok(<<>>)
            ELSE IF first.some /\ not_updated.some
                 THEN Api(Debug(not_updated.v))
            ELSE Api(Unexpected(jmap.value)))

\* a destroy that takes a null stored under the id for no acknowledgement
destroy_masked_email_inspects_value(token, account_id, id, net) ==
    LET request ==
            PostRequest(FASTMAIL_API_URL, token,
                JmapRequest("MaskedEmail/set",
                    [accountId |-> account_id,
                     update |-> (id :> [state |-> "deleted"])],
                    "0"))
        jmap == Exchange(net)
        first == FirstResult(jmap.value, "MaskedEmail/set")
        updated == Get(first.v, "updated")
        not_updated == Get(first.v, "notUpdated")
    IN  Outcome(<<request>>,
            IF jmap.kind # "Ok" THEN jmap
            ELSE IF first.some /\ updated.some /\ Get(updated.v, id).some
                    /\ Get(updated.v, id).v # Null
                 THEN Ok(<<>>)
            ELSE IF first.some /\ not_updated.some
                 THEN Api(Debug(not_updated.v))
            ELSE Api(Unexpected(jmap.value)))

\* FastmailClient::destroy_masked_email
destroy_masked_email(token, account_id, id, net) ==
    LET request ==
            PostRequest(FASTMAIL_API_URL, token,
                JmapRequest("MaskedEmail/set",
                    [accountId |-> account_id,
                     update |-> (id :> [state |-> "deleted"])],
                    "0"))
        jmap == Exchange(net)
        first == FirstResult(jmap.value, "MaskedEmail/set")
        updated == Get(first.v, "updated")
        not_updated == Get(first.v, "notUpdated")
    IN  Outcome(<<request>>,
            IF jmap.kind # "Ok" THEN jmap
            ELSE IF first.some /\ updated.some /\ Get(updated.v, id).some
                 THEN Ok(<<>>)
            ELSE IF first.some /\ not_updated.some
                 THEN Api(Debug(not_updated.v))
            ELSE Api(Unexpected(jmap.value)))

(***************************************************************************)
(* main.rs: the command handlers.  A handler ends the process with an exit *)
(* status after writing to stdout and stderr, or panics; it may replace    *)
(* the stored configuration.                                               *)
(***************************************************************************)
Line(fmt, args) == [fmt |-> fmt, args |-> args]
\* a string argument of a format, printed as it is
Lit(s) == [fmt |-> s, args |-> <<>>]
Exit(code, stdout, stderr) == [kind |-> "Exit", code |-> code, stdout |-> stdout, stderr |-> stderr]
Panic(msg) == [kind |-> "Panic", msg |-> msg]

Ran(sent, result, cfg) == [sent |-> sent, result |-> result, config |-> cfg]

\* struct Config
Config(api_token, account_id) == [api_token |-> api_token, account_id |-> account_id]

\* &s[..10] of a createdAt timestamp
DatePortion(o) == IF o.some THEN [slice |-> o.v, to |-> 10] ELSE [slice |-> "", to |-> 0]

\* fn login, with the token the prompt read
login(token, cfg, net) ==
    IF token = ""
    THEN Ran(<<>>, Exit(1, <<>>, <<Line("Error: Token cannot be empty", <<>>)>>), cfg)
    ELSE LET account == get_account_id(token, net) IN
         IF account.result.kind = "Ok"
         THEN Ran(account.sent,
                  Exit(0, <<Line("Logged in successfully. Config saved to {:?}", <<Lit("config.json")>>)>>, <<>>),
                  Some(Config(token, account.result.value)))
         ELSE Ran(account.sent,
                  Exit(1, <<>>, <<Line("Login failed: {}", <<Display(account.result)>>)>>),
                  cfg)

\* the rows fn list prints: every entity, or those whose state is "enabled"
Filtered(emails, all) ==
    IF all THEN emails
    ELSE SelectSeq(emails, LAMBDA e : e.state = Some("enabled"))

\* one printed row of fn list
Row(email, all) ==
    LET desc == unwrap_or_default(email.description)
        domain == unwrap_or_default(email.for_domain)
        state == IF email.state.some THEN email.state.v ELSE "unknown"
        created == DatePortion(email.created_at)
    IN  IF all
        THEN Line("{}\t{}\t{}\t{}\t{}", <<Lit(email.email), created, Lit(state), Lit(domain), Lit(desc)>>)
        ELSE Line("{}\t{}\t{}\t{}", <<Lit(email.email), created, Lit(domain), Lit(desc)>>)

\* fn list
list(all, cfg, net) ==
    IF ~cfg.some THEN Ran(<<>>, Panic("Not logged in. Run 'tmail login' first."), cfg)
    ELSE LET emails == list_masked_emails(cfg.v.api_token, cfg.v.account_id, net) IN
         IF emails.result.kind = "Ok"
         THEN LET filtered == Filtered(emails.result.value, all) IN
              IF Len(filtered) = 0
              THEN Ran(emails.sent, Exit(0, <<Line("No masked emails found.", <<>>)>>, <<>>), cfg)
              ELSE Ran(emails.sent,
                       Exit(0, [i \in 1..Len(filtered) |-> Row(filtered[i], all)], <<>>),
                       cfg)
         ELSE Ran(emails.sent,
                  Exit(1, <<>>, <<Line("Failed to list masked emails: {}", <<Display(emails.result)>>)>>),
                  cfg)

\* fn create; typed_desc and typed_site are what the prompts read when the
\* terminal is interactive and no description was given
create(description, website, interactive, typed_desc, typed_site, cfg, net) ==
    IF ~cfg.some THEN Ran(<<>>, Panic("Not logged in. Run 'tmail login' first."), cfg)
    ELSE LET prompted == ~description.some /\ interactive
             desc == IF prompted THEN typed_desc ELSE description
             site == IF prompted THEN typed_site ELSE website
             masked == create_masked_email(cfg.v.api_token, cfg.v.account_id, desc, site, net)
         IN  IF masked.result.kind = "Ok"
             THEN Ran(masked.sent, Exit(0, <<Line("{}", <<Lit(masked.result.value.email)>>)>>, <<>>), cfg)
             ELSE Ran(masked.sent,
                      Exit(1, <<>>, <<Line("Failed to create masked email: {}", <<Display(masked.result)>>)>>),
                      cfg)

\* emails.iter().find(|e| e.email == email): the index of the first match, 0 if none
Find(emails, email) ==
    IF \E i \in 1..Len(emails) : emails[i].email = email
    THEN CHOOSE i \in 1..Len(emails) :
            /\ emails[i].email = email
            /\ \A j \in 1..(i - 1) : emails[j].email # email
    ELSE 0

\* fn delete; net1 answers the listing, net2 answers the update when one is sent
delete(email, cfg, net1, net2) ==
    IF ~email.some
    THEN Ran(<<>>, Exit(1, <<>>, <<Line("Error: No email address specified.", <<>>)>>), cfg)
    ELSE IF ~cfg.some THEN Ran(<<>>, Panic("Not logged in. Run 'tmail login' first."), cfg)
    ELSE LET emails == list_masked_emails(cfg.v.api_token, cfg.v.account_id, net1)
             found == Find(emails.result.value, email.v)
             masked == emails.result.value[found]
             archived == delete_masked_email(cfg.v.api_token, cfg.v.account_id, masked.id.v, net2)
         IN  IF emails.result.kind # "Ok"
             THEN Ran(emails.sent,
                      Exit(1, <<>>, <<Line("Failed to list masked emails: {}", <<Display(emails.result)>>)>>),
                      cfg)
             ELSE IF found = 0
             THEN Ran(emails.sent,
                      Exit(1, <<>>, <<Line("Error: Masked email '{}' not found.", <<Lit(email.v)>>)>>),
                      cfg)
             ELSE IF ~masked.id.some
             THEN Ran(emails.sent,
                      Exit(1, <<>>, <<Line("Error: Masked email has no ID.", <<>>)>>),
                      cfg)
             ELSE IF archived.result.kind = "Ok"
             THEN Ran(emails.sent \o archived.sent,
                      Exit(0, <<Line("Archived: {}", <<Lit(email.v)>>)>>, <<>>),
                      cfg)
             ELSE Ran(emails.sent \o archived.sent,
                      Exit(1, <<>>, <<Line("Failed to archive masked email: {}", <<Display(archived.result)>>)>>),
                      cfg)

(***************************************************************************)
(* The remote endpoint of Spec: the JMAP session resource and the          *)
(* MaskedEmail/get and MaskedEmail/set methods, over the records           *)
(* remote[id] \in {"absent", "enabled", "disabled", "deleted"}.            *)
(***************************************************************************)
AllIds == <<"m1", "m2", "m3">>
AllEmails == <<"a@mask.example", "b@mask.example", "c@mask.example">>
Ids == {AllIds[i] : i \in 1..NumIds}
EmailOf(id) == AllEmails[CHOOSE i \in 1..Len(AllIds) : AllIds[i] = id]

\* the account and the tokens the endpoint knows: FullToken has the
\* masked-email scope, CoreToken lacks it, any other token is refused
AccountId == "u1"
FullToken == "tok"
CoreToken == "core"

Entity(id, state) ==
    Obj([id |-> Str(id), email |-> Str(EmailOf(id)), state |-> Str(state)])

RECURSIVE ListFrom(_, _)
ListFrom(rem, i) ==
    IF i > NumIds THEN <<>>
    ELSE (IF rem[AllIds[i]] # "absent" THEN <<Entity(AllIds[i], rem[AllIds[i]])>> ELSE <<>>)
         \o ListFrom(rem, i + 1)

Batch(entries) == Json(Obj([methodResponses |-> Arr(entries)]))
Entry(name, result, call_id) == Arr(<<Str(name), result, Str(call_id)>>)
SetError(type) == Obj([type |-> Str(type)])

Answer(net, rem) == [net |-> net, remote |-> rem]

\* the session resource
SessionAnswer(rem, request) ==
    Answer(Response(200,
                Json(Obj([primaryAccounts |->
                    Obj(IF request.bearer = FullToken
                        THEN (JMAP_CORE_CAPABILITY :> Str(AccountId))
                             @@ (MASKED_EMAIL_CAPABILITY :> Str(AccountId))
                        ELSE (JMAP_CORE_CAPABILITY :> Str(AccountId)))])),
                TRUE),
           rem)

\* MaskedEmail/get with ids = null: every record that was ever created
GetAnswer(rem, call) ==
    Answer(Response(200,
                Batch(<<Entry("MaskedEmail/get", Obj([list |-> Arr(ListFrom(rem, 1))]), call[3])>>),
                TRUE),
           rem)

\* MaskedEmail/set with a create map: a fresh record, enabled, or notCreated
\* when the account holds NumIds records already
CreateAnswer(rem, call) ==
    IF \E id \in Ids : rem[id] = "absent"
    THEN LET i == CHOOSE i \in 1..NumIds :
                    /\ rem[AllIds[i]] = "absent"
                    /\ \A j \in 1..(i - 1) : rem[AllIds[j]] # "absent"
             id == AllIds[i]
         IN  Answer(Response(200,
                        Batch(<<Entry("MaskedEmail/set",
                                      Obj([created |-> Obj([new |-> Entity(id, call[2].create.new.state)])]),
                                      call[3])>>),
                        TRUE),
                    [rem EXCEPT ![id] = call[2].create.new.state])
    ELSE Answer(Response(200,
                    Batch(<<Entry("MaskedEmail/set",
                                  Obj([notCreated |-> Obj([new |-> SetError("rateLimit")])]),
                                  call[3])>>),
                    TRUE),
                rem)

\* MaskedEmail/set with an update map of one id: the record takes the state
\* asked for and the id is reported under updated with a null value; an id
\* the account does not hold is reported under notUpdated
UpdateAnswer(rem, call) ==
    LET id == CHOOSE k \in DOMAIN call[2].update : TRUE IN
    IF id \in Ids /\ rem[id] # "absent"
    THEN Answer(Response(200,
                    Batch(<<Entry("MaskedEmail/set", Obj([updated |-> Obj(id :> Null)]), call[3])>>),
                    TRUE),
                [rem EXCEPT ![id] = call[2].update[id].state])
    ELSE Answer(Response(200,
                    Batch(<<Entry("MaskedEmail/set",
                                  Obj([notUpdated |-> Obj(id :> SetError("notFound"))]),
                                  call[3])>>),
                    TRUE),
                rem)

Faults == {"none", "transport", "unavailable"}

\* what the remote endpoint does with one request
Endpoint(rem, request, fault) ==
    IF fault = "transport" THEN Answer(SendError("connection reset"), rem)
    ELSE IF fault = "unavailable"
         THEN Answer(Response(503, Text("Service Unavailable"), TRUE), rem)
    ELSE IF request.bearer \notin {FullToken, CoreToken}
         THEN Answer(Response(401, Text("Unauthorized"), TRUE), rem)
    ELSE IF request.verb = "GET" THEN SessionAnswer(rem, request)
    ELSE LET call == request.json.methodCalls[1] IN
         IF call[2].accountId # AccountId \/ request.bearer # FullToken
         THEN Answer(Response(200,
                         Batch(<<Entry("error", SetError("accountNotFound"), call[3])>>),
                         TRUE),
                     rem)
         ELSE IF call[1] = "MaskedEmail/get" THEN GetAnswer(rem, call)
         ELSE IF "create" \in DOMAIN call[2] THEN CreateAnswer(rem, call)
         ELSE UpdateAnswer(rem, call)

(***************************************************************************)
(* The exchanges of WireSpec: whatever an endpoint can put on the wire.    *)
(***************************************************************************)
SeqsUpTo(S, n) == UNION {[1..k -> S] : k \in 0..n}

WireEntity1 == Obj([id |-> Str("m1"), email |-> Str("a@mask.example"), state |-> Str("enabled")])
WireEntity2 == Obj([id |-> Str("m2"), email |-> Str("b@mask.example"), state |-> Str("deleted")])
WireEntityNoId == Obj([email |-> Str("a@mask.example"), state |-> Str("enabled")])
WireEntityMinimal == Obj([email |-> Str("x@y.com")])
WireEntityNoEmail == Obj([id |-> Str("m1")])

\* values of a "created", "notCreated", "updated", "notUpdated", "list" section
CreatedValues ==
    {Null, EmptyObj}
    \cup {Obj([new |-> e]) : e \in {WireEntity1, WireEntityMinimal, WireEntityNoEmail, Null}}
NotCreatedValues == {Obj([new |-> SetError("rateLimit")])}
UpdatedValues ==
    {Null, EmptyObj, Obj("m1" :> Null), Obj("m1" :> EmptyObj), Obj("m2" :> Null)}
NotUpdatedValues == {Obj("m1" :> SetError("notFound"))}
ListValues ==
    {Null}
    \cup {Arr(l) : l \in SeqsUpTo({WireEntity1, WireEntity2, WireEntityNoId, WireEntityNoEmail}, MaxListed)}

Section(key, values) == {<<>>} \cup {key :> v : v \in values}

WireResults ==
    {Obj(a @@ b) : a \in Section("created", CreatedValues), b \in Section("notCreated", NotCreatedValues)}
    \cup {Obj(a @@ b) : a \in Section("updated", UpdatedValues), b \in Section("notUpdated", NotUpdatedValues)}
    \cup {Obj(a) : a \in Section("list", ListValues)}

WireMethods == {"MaskedEmail/set", "MaskedEmail/get", "error"}
WireCallIds == {"0", "1"}

WireEntries ==
    {Entry(name, result, call_id) : name \in WireMethods, result \in WireResults, call_id \in WireCallIds}

\* the entries that follow the first one in a longer batch
TailEntries ==
    {Entry("MaskedEmail/set", Obj([created |-> Obj([new |-> WireEntity1])]), "0"),
     Entry("MaskedEmail/set", Obj([updated |-> Obj("m1" :> Null)]), "0"),
     Entry("MaskedEmail/get", Obj([list |-> Arr(<<WireEntity1>>)]), "0"),
     Entry("error", SetError("serverFail"), "1")}

RECURSIVE BatchesOfLen(_)
BatchesOfLen(n) ==
    IF n = 0 THEN {<<>>}
    ELSE IF n = 1 THEN {<<e>> : e \in WireEntries}
    ELSE {Append(b, e) : b \in BatchesOfLen(n - 1), e \in TailEntries}

WireBatches == UNION {BatchesOfLen(n) : n \in 0..MaxEntries}

SessionBodies ==
    {Json(Obj([primaryAccounts |-> Obj(m)])) :
        m \in {<<>>,
               JMAP_CORE_CAPABILITY :> Str("u1"),
               MASKED_EMAIL_CAPABILITY :> Str("u1"),
               (JMAP_CORE_CAPABILITY :> Str("u0")) @@ (MASKED_EMAIL_CAPABILITY :> Str("u1")),
               MASKED_EMAIL_CAPABILITY :> Null,
               (JMAP_CORE_CAPABILITY :> Null) @@ (MASKED_EMAIL_CAPABILITY :> Str("u1"))}}
    \cup {Json(Obj([primaryAccounts |-> Null]))}

MalformedBodies ==
    {Text(""), Text("denied"), Bytes("ff"), Json(Null), Json(EmptyObj),
     Json(Obj([methodResponses |-> Null])),
     Batch(<<Null>>),
     Batch(<<Arr(<<Str("MaskedEmail/set"), EmptyObj>>)>>),
     Batch(<<Arr(<<Str("MaskedEmail/set"), EmptyObj, Null>>)>>)}

WireBodies == {Batch(b) : b \in WireBatches} \cup SessionBodies \cup MalformedBodies

\* bodies sent along with every status, readable or not
StatusBodies ==
    {Text(""), Text("denied"), Bytes("ff"),
     Batch(<<Entry("MaskedEmail/set", Obj([created |-> Obj([new |-> WireEntity1])]), "0")>>),
     Batch(<<Entry("MaskedEmail/set", Obj([updated |-> Obj("m1" :> Null)]), "0")>>),
     Batch(<<Entry("MaskedEmail/get", Obj([list |-> Arr(<<WireEntity1>>)]), "0")>>),
     Json(Obj([primaryAccounts |-> Obj(MASKED_EMAIL_CAPABILITY :> Str("u1"))]))}

Statuses == {200, 299, 300, 401, 500}

WireNets ==
    {SendError("connection refused")}
    \cup {Response(200, b, TRUE) : b \in WireBodies}
    \cup {Response(st, b, r) : st \in Statuses, b \in StatusBodies, r \in BOOLEAN}

\* the answers to the second request of a handler that sends two
SecondNets ==
    {SendError("connection refused"),
     Response(401, Text("denied"), TRUE),
     Response(200, Text("denied"), TRUE),
     Response(200, Batch(<<>>), TRUE)}
    \cup {Response(200, Batch(<<Entry("MaskedEmail/set", r, "0")>>), TRUE) :
            r \in {Obj([updated |-> Obj("m1" :> Null)]),
                   Obj([updated |-> Obj("m2" :> Null)]),
                   Obj([notUpdated |-> Obj("m1" :> SetError("notFound"))])}}

(***************************************************************************)
(* The state machine.  endpoint says what answers the requests: "jmap" is  *)
(* the remote endpoint above (Spec), "arbitrary" is any exchange of        *)
(* WireNets (WireSpec), where a behaviour is one invocation.               *)
(*   remote     the records the remote endpoint holds                      *)
(*   config     the stored configuration file, None before the first login *)
(*   last       the last invocation: operation, arguments, the exchanges   *)
(*              the network gave it, the requests it sent, what it         *)
(*              returned, and the remote records before it ran             *)
(*   destroyed  the ids destroy_masked_email has returned Ok for           *)
(***************************************************************************)
Probe == SendError("probe")

NoCall ==
    [op |-> "none", args |-> <<>>, nets |-> <<>>, sent |-> <<>>,
     result |-> [kind |-> "None"], pre |-> [id \in Ids |-> "absent"]]

InitCommon ==
    /\ remote = [id \in Ids |-> "absent"]
    /\ config \in {None, Some(Config(FullToken, AccountId))}
    /\ last = NoCall
    /\ destroyed = {}

Init == endpoint = "jmap" /\ InitCommon
WireInit == endpoint = "arbitrary" /\ InitCommon

Ready == endpoint = "jmap" \/ last.op = "none"

\* the answers the network can give to the first and to the second request
Answers(request) ==
    IF endpoint = "arbitrary" THEN {Answer(n, remote) : n \in WireNets}
    ELSE {Endpoint(remote, request, f) : f \in Faults}

SecondAnswers(rem, request) ==
    IF endpoint = "arbitrary" THEN {Answer(n, rem) : n \in SecondNets}
    ELSE {Endpoint(rem, request, f) : f \in Faults}

Called(op, args, nets, out) ==
    last' = [op |-> op, args |-> args, nets |-> nets, sent |-> out.sent,
             result |-> out.result, pre |-> remote]

ClientTokens == {FullToken, CoreToken, "bad"}
Descriptions == {<<None, None>>, <<Some("shop"), Some("example.com")>>}
Addresses == {None, Some("nobody@mask.example")} \cup {Some(EmailOf(id)) : id \in Ids}
PromptTokens == {"", FullToken, CoreToken}
CreateInputs ==
    {[description |-> None, website |-> None, interactive |-> FALSE,
      typed_desc |-> None, typed_site |-> None],
     [description |-> Some("shop"), website |-> Some("example.com"), interactive |-> TRUE,
      typed_desc |-> None, typed_site |-> None],
     [description |-> None, website |-> Some("example.com"), interactive |-> TRUE,
      typed_desc |-> Some("typed"), typed_site |-> None]}

GetSession ==
    /\ Ready
    /\ \E token \in ClientTokens :
         \E a \in Answers(get_session(token, Probe).sent[1]) :
            /\ Called("get_session", [token |-> token], <<a.net>>, get_session(token, a.net))
            /\ remote' = a.remote
    /\ UNCHANGED <<endpoint, config, destroyed>>

GetAccountId ==
    /\ Ready
    /\ \E token \in ClientTokens :
         \E a \in Answers(get_account_id(token, Probe).sent[1]) :
            /\ Called("get_account_id", [token |-> token], <<a.net>>, get_account_id(token, a.net))
            /\ remote' = a.remote
    /\ UNCHANGED <<endpoint, config, destroyed>>

CreateMaskedEmail ==
    /\ Ready
    /\ \E d \in Descriptions :
         \E a \in Answers(create_masked_email(FullToken, AccountId, d[1], d[2], Probe).sent[1]) :
            /\ Called("create_masked_email", [description |-> d[1], for_domain |-> d[2]], <<a.net>>,
                      create_masked_email(FullToken, AccountId, d[1], d[2], a.net))
            /\ remote' = a.remote
    /\ UNCHANGED <<endpoint, config, destroyed>>

ListMaskedEmails ==
    /\ Ready
    /\ \E a \in Answers(list_masked_emails(FullToken, AccountId, Probe).sent[1]) :
            /\ Called("list_masked_emails", <<>>, <<a.net>>,
                      list_masked_emails(FullToken, AccountId, a.net))
            /\ remote' = a.remote
    /\ UNCHANGED <<endpoint, config, destroyed>>

DeleteMaskedEmail ==
    /\ Ready
    /\ \E id \in Ids :
         \E a \in Answers(delete_masked_email(FullToken, AccountId, id, Probe).sent[1]) :
            /\ Called("delete_masked_email", [id |-> id], <<a.net>>,
                      delete_masked_email(FullToken, AccountId, id, a.net))
            /\ remote' = a.remote
    /\ UNCHANGED <<endpoint, config, destroyed>>

DestroyMaskedEmail ==
    /\ Ready
    /\ \E id \in Ids :
         \E a \in Answers(destroy_masked_email(FullToken, AccountId, id, Probe).sent[1]) :
            LET out == destroy_masked_email(FullToken, AccountId, id, a.net) IN
            /\ Called("destroy_masked_email", [id |-> id], <<a.net>>, out)
            /\ remote' = a.remote
            /\ destroyed' = IF out.result.kind = "Ok" THEN destroyed \cup {id} ELSE destroyed
    /\ UNCHANGED <<endpoint, config>>

Login ==
    /\ Ready
    /\ \E token \in PromptTokens :
         LET run(net) == login(token, config, net) IN
         LET probe == run(Probe) IN
         IF Len(probe.sent) = 0
         THEN /\ Called("login", [token |-> token], <<>>, probe)
              /\ config' = probe.config
              /\ remote' = remote
         ELSE \E a \in Answers(probe.sent[1]) :
                 /\ Called("login", [token |-> token], <<a.net>>, run(a.net))
                 /\ config' = run(a.net).config
                 /\ remote' = a.remote
    /\ UNCHANGED <<endpoint, destroyed>>

List ==
    /\ Ready
    /\ \E all \in BOOLEAN :
         LET run(net) == list(all, config, net) IN
         LET probe == run(Probe) IN
         IF Len(probe.sent) = 0
         THEN /\ Called("list", [all |-> all], <<>>, probe)
              /\ config' = probe.config
              /\ remote' = remote
         ELSE \E a \in Answers(probe.sent[1]) :
                 /\ Called("list", [all |-> all], <<a.net>>, run(a.net))
                 /\ config' = run(a.net).config
                 /\ remote' = a.remote
    /\ UNCHANGED <<endpoint, destroyed>>

Create ==
    /\ Ready
    /\ \E i \in CreateInputs :
         LET run(net) == create(i.description, i.website, i.interactive,
                                i.typed_desc, i.typed_site, config, net) IN
         LET probe == run(Probe) IN
         IF Len(probe.sent) = 0
         THEN /\ Called("create", i, <<>>, probe)
              /\ config' = probe.config
              /\ remote' = remote
         ELSE \E a \in Answers(probe.sent[1]) :
                 /\ Called("create", i, <<a.net>>, run(a.net))
                 /\ config' = run(a.net).config
                 /\ remote' = a.remote
    /\ UNCHANGED <<endpoint, destroyed>>

Delete ==
    /\ Ready
    /\ \E email \in Addresses :
         LET first == delete(email, config, Probe, Probe) IN
         IF Len(first.sent) = 0
         THEN /\ Called("delete", [email |-> email], <<>>, first)
              /\ remote' = remote
         ELSE \E a1 \in Answers(first.sent[1]) :
                LET second == delete(email, config, a1.net, Probe) IN
                IF Len(second.sent) < 2
                THEN /\ Called("delete", [email |-> email], <<a1.net>>, second)
                     /\ remote' = a1.remote
                ELSE \E a2 \in SecondAnswers(a1.remote, second.sent[2]) :
                        /\ Called("delete", [email |-> email], <<a1.net, a2.net>>,
                                  delete(email, config, a1.net, a2.net))
                        /\ remote' = a2.remote
    /\ UNCHANGED <<endpoint, config, destroyed>>

Next ==
    \/ GetSession
    \/ GetAccountId
    \/ CreateMaskedEmail
    \/ ListMaskedEmails
    \/ DeleteMaskedEmail
    \/ DestroyMaskedEmail
    \/ Login
    \/ List
    \/ Create
    \/ Delete

Spec == Init /\ [][Next]_vars
WireSpec == WireInit /\ [][Next]_vars

(***************************************************************************)
(* Properties.                                                             *)
(***************************************************************************)
CoreOps ==
    {"get_session", "get_account_id", "create_masked_email",
     "list_masked_emails", "delete_masked_email", "destroy_masked_email"}

\* the single exchange of the last invocation
Net == last.nets[1]

NonSuccess ==
    /\ last.op \in CoreOps
    /\ Net.kind = "response"
    /\ ~(Net.status >= 200 /\ Net.status <= 299)

WellFormed(net) ==
    /\ net.kind = "response"
    /\ net.status >= 200 /\ net.status <= 299
    /\ json_JmapResponse(net).kind = "Ok"

RawEntries(net) == net.body.value.m["methodResponses"].a

\* the result of the operation's call: the payload of the first response
\* entry when that entry is named after the method called; no result, which
\* holds no section, otherwise
RawResult(net, method) ==
    IF Len(RawEntries(net)) >= 1 /\ RawEntries(net)[1].a[1] = Str(method)
    THEN RawEntries(net)[1].a[2]
    ELSE Null

HasSection(r, key) == r.t = "obj" /\ key \in DOMAIN r.m

RawField(e, key) ==
    IF key \in DOMAIN e.m /\ e.m[key].t = "str" THEN Some(e.m[key].s) ELSE None

\* the MaskedEmail an entity object stands for
RawMaskedEmail(e) ==
    [id |-> RawField(e, "id"), email |-> e.m["email"].s, state |-> RawField(e, "state"),
     for_domain |-> RawField(e, "forDomain"), description |-> RawField(e, "description"),
     created_at |-> RawField(e, "createdAt"), last_message_at |-> RawField(e, "lastMessageAt")]

\* the "created" section holds the created entity, a MaskedEmail
HoldsCreated(r) ==
    /\ HasSection(r, "created")
    /\ HasSection(r.m["created"], "new")
    /\ from_value_MaskedEmail(r.m["created"].m["new"]).kind = "Ok"

\* the "created" section holds something under "new" that is no MaskedEmail
HoldsUndecodable(r) ==
    /\ HasSection(r, "created")
    /\ HasSection(r.m["created"], "new")
    /\ from_value_MaskedEmail(r.m["created"].m["new"]).kind # "Ok"

\* C2: for every 2xx, well-formed response to create_masked_email (the body
\* decodes as a batch, and what a "created" section holds under "new" is a
\* MaskedEmail): when the result has a "created" section holding the created
\* entity the operation returns that entity decoded as a MaskedEmail; when
\* instead it has a "notCreated" section the operation returns Api with the
\* rejection detail; when it has neither section it returns Api with the
\* unexpected-response detail; and there is no other outcome.
C2_CreateOutcomes ==
    (last.op = "create_masked_email" /\ WellFormed(Net)
        /\ ~HoldsUndecodable(RawResult(Net, "MaskedEmail/set"))) =>
        LET r == RawResult(Net, "MaskedEmail/set") IN
        /\ HoldsCreated(r) =>
              last.result = Ok(RawMaskedEmail(r.m["created"].m["new"]))
        /\ (~HoldsCreated(r) /\ HasSection(r, "notCreated")) =>
              last.result = Api(Debug(r.m["notCreated"]))
        /\ (~HasSection(r, "created") /\ ~HasSection(r, "notCreated")) =>
              last.result = Api(Unexpected(json_JmapResponse(Net).value))
        /\ last.result.kind \in {"Ok", "Api"}

\* a rejection next to an empty "created" section is reported as Api
C2_Witness ==
    /\ last.op = "create_masked_email"
    /\ WellFormed(Net)
    /\ RawResult(Net, "MaskedEmail/set") =
          Obj([created |-> EmptyObj, notCreated |-> Obj([new |-> SetError("rateLimit")])])
    /\ last.result = Api(Debug(Obj([new |-> SetError("rateLimit")])))

UpdateOps == {"delete_masked_email", "destroy_masked_email"}

\* the state an update operation asks for
StateSent(op) == IF op = "delete_masked_email" THEN "disabled" ELSE "deleted"

\* the other update operation, on the same id and exchange
Twin(op, id, net) ==
    IF op = "delete_masked_email"
    THEN destroy_masked_email(FullToken, AccountId, id, net)
    ELSE delete_masked_email(FullToken, AccountId, id, net)

\* C3: delete_masked_email and destroy_masked_email called with id X, on a
\* 2xx well-formed response, succeed exactly when X is a key of the
\* result's "updated" section, whatever is stored there (null included);
\* otherwise they return Api with the "notUpdated" section when there is
\* one, and Api when there is neither.  The two classify every exchange
\* alike and their requests differ in the state alone: disabled, deleted.
C3_UpdateOutcomes ==
    (last.op \in UpdateOps) =>
        LET id == last.args.id
            call == last.sent[1].json.methodCalls[1]
            twin == Twin(last.op, id, Net)
        IN
        /\ WellFormed(Net) =>
             LET r == RawResult(Net, "MaskedEmail/set")
                 acknowledged == HasSection(r, "updated") /\ HasSection(r.m["updated"], id)
             IN
             /\ (last.result = Ok(<<>>)) <=> acknowledged
             /\ (~acknowledged /\ HasSection(r, "notUpdated")) =>
                   last.result = Api(Debug(r.m["notUpdated"]))
             /\ (~acknowledged /\ ~HasSection(r, "notUpdated")) =>
                   last.result = Api(Unexpected(json_JmapResponse(Net).value))
        /\ twin.result = last.result
        /\ call[2].update = (id :> [state |-> StateSent(last.op)])
        /\ [last.sent[1] EXCEPT !.json.methodCalls[1][2].update[id].state = "any"]
              = [twin.sent[1] EXCEPT !.json.methodCalls[1][2].update[id].state = "any"]

\* destroy succeeds on an id acknowledged with a null value
C3_Witness ==
    /\ last.op = "destroy_masked_email"
    /\ last.args.id = "m1"
    /\ WellFormed(Net)
    /\ RawResult(Net, "MaskedEmail/set") = Obj([updated |-> Obj("m1" :> Null)])
    /\ last.result = Ok(<<>>)

JmapOps ==
    {"create_masked_email", "list_masked_emails", "delete_masked_email", "destroy_masked_email"}

\* C9: every call of a request batch carries a call id unique within the
\* batch, and an operation takes a response entry for the result of its call
\* only when the entry's call id is the one it sent: a success is never read
\* off an entry with another call id, nor off an entry for its place in the
\* response.
C9_CallIdCorrelation ==
    (last.op \in JmapOps) =>
        LET calls == last.sent[1].json.methodCalls IN
        /\ \A i, j \in 1..Len(calls) : i # j => calls[i][3] # calls[j][3]
        /\ (WellFormed(Net) /\ last.result.kind = "Ok") =>
              RawEntries(Net)[1].a[3] = Str(calls[1][3])

\* C10: get_account_id returns the account bound to the masked-email
\* capability URI in the session's primaryAccounts when that key is there,
\* MissingCapability exactly when the session was fetched and decoded but
\* holds no such key, and the session fetch's own error (Http, Auth, Parse),
\* unchanged, otherwise.
C10_AccountId ==
    (last.op = "get_account_id") =>
        LET session == get_session(last.args.token, Net).result IN
        /\ (session.kind = "Ok" /\ MASKED_EMAIL_CAPABILITY \in DOMAIN session.value.primary_accounts) =>
              last.result = Ok(Net.body.value.m["primaryAccounts"].m[MASKED_EMAIL_CAPABILITY].s)
        /\ (last.result = MissingCapability) <=>
              (session.kind = "Ok" /\ MASKED_EMAIL_CAPABILITY \notin DOMAIN session.value.primary_accounts)
        /\ (session.kind # "Ok") =>
              (last.result = session /\ session.kind \in {"Http", "Auth", "Parse"})

\* a session that binds the core capability alone
C10_Witness ==
    /\ last.op = "get_account_id"
    /\ Net = Response(200, Json(Obj([primaryAccounts |-> Obj(JMAP_CORE_CAPABILITY :> Str("u1"))])), TRUE)
    /\ last.result = MissingCapability

(***************************************************************************)
(* Lifecycle properties, against the remote endpoint.                      *)
(***************************************************************************)
\* the MaskedEmail/set update requests of the last invocation, as
\* <<id, state asked for>>
UpdatesSent ==
    {<<CHOOSE k \in DOMAIN last.sent[i].json.methodCalls[1][2].update : TRUE,
       last.sent[i].json.methodCalls[1][2].update[
           CHOOSE k \in DOMAIN last.sent[i].json.methodCalls[1][2].update : TRUE].state>> :
        i \in {j \in 1..Len(last.sent) :
                 /\ last.sent[j].verb = "POST"
                 /\ "update" \in DOMAIN last.sent[j].json.methodCalls[1][2]}}

CreatesSent ==
    {last.sent[i].json.methodCalls[1][2].create.new.state :
        i \in {j \in 1..Len(last.sent) :
                 /\ last.sent[j].verb = "POST"
                 /\ "create" \in DOMAIN last.sent[j].json.methodCalls[1][2]}}

LegalTransitions ==
    {<<"enabled", "disabled">>, <<"enabled", "deleted">>, <<"disabled", "deleted">>}

\* C4: the only state changes the client asks for are (absent) -> enabled
\* by create, enabled -> disabled by archive, and enabled or disabled ->
\* deleted by destroy: it never asks to take a disabled entity back to
\* enabled, and never asks for a change of an entity whose state is deleted.
C4_OnlyLegalTransitions ==
    /\ \A st \in CreatesSent : st = "enabled"
    /\ \A u \in UpdatesSent :
          (u[1] \in Ids /\ last.pre[u[1]] # "absent" /\ last.pre[u[1]] # u[2]) =>
              <<last.pre[u[1]], u[2]>> \in LegalTransitions

\* the rows of the last listing command, and the entities of the last
\* list_masked_emails, that show the record of id
RowsOf(id) ==
    {i \in 1..Len(last.result.stdout) :
        /\ Len(last.result.stdout[i].args) >= 1
        /\ last.result.stdout[i].args[1] = Lit(EmailOf(id))}

C6_DestroyIsTerminal ==
    \A id \in destroyed :
        /\ (last.op = "list" /\ last.result.kind = "Exit" /\ last.result.code = 0
                /\ ~last.args.all) =>
              RowsOf(id) = {}
        /\ (last.op = "list" /\ last.result.kind = "Exit" /\ last.result.code = 0
                /\ last.args.all) =>
              \A i \in RowsOf(id) : last.result.stdout[i].args[3] = Lit("deleted")
        /\ (last.op = "list_masked_emails" /\ last.result.kind = "Ok") =>
              \A i \in 1..Len(last.result.value) :
                  last.result.value[i].id = Some(id) =>
                      last.result.value[i].state = Some("deleted")

\* the listing of the last delete command succeeded and holds no entity
\* with the address asked for
AddressAbsent ==
    /\ last.op = "delete"
    /\ last.args.email.some
    /\ config.some
    /\ Len(last.nets) >= 1
    /\ list_masked_emails(config.v.api_token, config.v.account_id, last.nets[1]).result.kind = "Ok"
    /\ \A i \in 1..Len(list_masked_emails(config.v.api_token, config.v.account_id, last.nets[1]).result.value) :
          list_masked_emails(config.v.api_token, config.v.account_id, last.nets[1]).result.value[i].email
              # last.args.email.v

ListFailed ==
    /\ last.op = "delete"
    /\ last.args.email.some
    /\ config.some
    /\ Len(last.nets) >= 1
    /\ list_masked_emails(config.v.api_token, config.v.account_id, last.nets[1]).result.kind # "Ok"

\* the last invocation failed with the error e: it returned e, or it ended
\* the process with status 1 after printing e
FailedWith(e) ==
    \/ last.result = e
    \/ /\ last.result.kind = "Exit"
       /\ last.result.code = 1
       /\ \E i \in 1..Len(last.result.stderr) :
             /\ Len(last.result.stderr[i].args) = 1
             /\ last.result.stderr[i].args[1] = Display(e)

\* C7: looking an entity up by an address that is the email of no listed
\* entity fails with the NotFound error carrying exactly that address, and
\* sends no update; when the listing itself fails, the lookup fails with
\* the listing's error.
C7_NotFoundCarriesAddress ==
    /\ AddressAbsent =>
          (/\ FailedWith(NotFound(last.args.email.v))
           /\ UpdatesSent = {})
    /\ ListFailed =>
          FailedWith(list_masked_emails(config.v.api_token, config.v.account_id, last.nets[1]).result)

\* the exchange of the last invocation failed in transport or in status
ExchangeFailed ==
    \/ Net.kind = "error"
    \/ (Net.kind = "response" /\ ~(Net.status >= 200 /\ Net.status <= 299))

\* C8: every core operation sends one request per invocation and no more;
\* when the request ends in a transport failure or a non-2xx status the
\* operation returns that error at once, without another request; and a
\* create that repeats an earlier one is not deduplicated: it sends its own
\* create request.
C8_OneRequest ==
    (last.op \in CoreOps) =>
        /\ Len(last.sent) = 1
        /\ Len(last.nets) = 1
        /\ ExchangeFailed => last.result.kind \in {"Http", "Auth"}
        /\ (last.op = "create_masked_email") => CreatesSent = {"enabled"}

\* a create, after an earlier one was acknowledged, that fails in transport
C8_Witness ==
    /\ last.op = "create_masked_email"
    /\ \E id \in Ids : last.pre[id] = "enabled"
    /\ Net.kind = "error"
    /\ last.result.kind = "Http"
    /\ Len(last.sent) = 1

\* the result of the last create or update holds both of the named sections
BothSections(ok, failed) ==
    /\ WellFormed(Net)
    /\ HasSection(RawResult(Net, "MaskedEmail/set"), ok)
    /\ HasSection(RawResult(Net, "MaskedEmail/set"), failed)

\* the "updated" section of the last update holds the id the operation named
HoldsUpdated(r) ==
    HasSection(r, "updated") /\ HasSection(r.m["updated"], last.args.id)

\* C11 (as stated): whenever the result of a create holds both a "created"
\* and a "notCreated" section, or the result of an archive or destroy holds
\* both an "updated" and a "notUpdated" section, the operation reports
\* success.
C11_SuccessPrecedence ==
    /\ (last.op = "create_masked_email" /\ BothSections("created", "notCreated")) =>
          last.result.kind = "Ok"
    /\ (last.op \in UpdateOps /\ BothSections("updated", "notUpdated")) =>
          last.result.kind = "Ok"

\* C11 (amended): with both sections present the operation reports success
\* exactly when the success section holds the item of the call: a create
\* returns the entity decoded from "created"."new", an archive or destroy
\* returns Ok when its id is a key of "updated".  A success section without
\* that item does not take precedence: the operation returns Api with the
\* failure section (and Parse when "created"."new" is not a MaskedEmail).
C11_SuccessPrecedenceWhenItemPresent ==
    /\ (last.op = "create_masked_email" /\ BothSections("created", "notCreated")) =>
          LET r == RawResult(Net, "MaskedEmail/set") IN
          /\ HoldsCreated(r) => last.result = Ok(RawMaskedEmail(r.m["created"].m["new"]))
          /\ HoldsUndecodable(r) => last.result.kind = "Parse"
          /\ (~HoldsCreated(r) /\ ~HoldsUndecodable(r)) =>
                last.result = Api(Debug(r.m["notCreated"]))
    /\ (last.op \in UpdateOps /\ BothSections("updated", "notUpdated")) =>
          LET r == RawResult(Net, "MaskedEmail/set") IN
          /\ HoldsUpdated(r) => last.result = Ok(<<>>)
          /\ ~HoldsUpdated(r) => last.result = Api(Debug(r.m["notUpdated"]))

\* a create answered with the created entity next to a rejection succeeds
C11_Witness ==
    /\ last.op = "create_masked_email"
    /\ BothSections("created", "notCreated")
    /\ HoldsCreated(RawResult(Net, "MaskedEmail/set"))
    /\ last.result.kind = "Ok"
    /\ last.result.value.email = "a@mask.example"

\* what the listing request of the last list or delete command returned
Listing == list_masked_emails(config.v.api_token, config.v.account_id, last.nets[1]).result

\* the last command obtained a listing
Listed(op) ==
    /\ last.op = op
    /\ config.some
    /\ Len(last.nets) >= 1
    /\ Listing.kind = "Ok"

\* the entities of a listing that carry an id
Acknowledged(emails) == SelectSeq(emails, LAMBDA e : e.id.some)

\* the address given to the last delete command belongs to a listed entity
\* that has no id
FoundWithoutId ==
    /\ Listed("delete")
    /\ Find(Listing.value, last.args.email.v) # 0
    /\ ~Listing.value[Find(Listing.value, last.args.email.v)].id.some

\* no update is sent for an entity returned without an id
NoUpdateWithoutId == FoundWithoutId => (Len(last.sent) = 1 /\ UpdatesSent = {})

\* C12: an entity returned without an id is neither deletable nor listable:
\* the delete command sends no archive or destroy request for it, the list
\* command prints the rows of the entities that carry an id and no other,
\* and a listing returned to the caller holds no entity without an id.
C12_NoIdNotAResource ==
    /\ NoUpdateWithoutId
    /\ Listed("list") =>
          LET shown == Acknowledged(Filtered(Listing.value, last.args.all)) IN
          last.result.stdout =
              IF Len(shown) = 0 THEN <<Line("No masked emails found.", <<>>)>>
              ELSE [i \in 1..Len(shown) |-> Row(shown[i], last.args.all)]
    /\ (last.op = "list_masked_emails" /\ last.result.kind = "Ok") =>
          \A i \in 1..Len(last.result.value) : last.result.value[i].id.some

====
